---- MODULE Spec2Model ----
(***************************************************************************)
(* Closest points between a composite shape (a QBVH over parts) and one    *)
(* other shape: closest_points_composite_shape_shape, its mirror           *)
(* closest_points_shape_composite_shape and the best-first visitor         *)
(* CompositeShapeAgainstShapeClosestPointsVisitor.                         *)
(*                                                                         *)
(* Geometry is the slice of the 2-D query that lies on the x axis: shapes  *)
(* are closed integer intervals, an isometry is a rotation by 0 or pi      *)
(* (s = 1 or -1) followed by a translation t, x |-> s*x + t, and the       *)
(* distance between two points is |a - b|.                                 *)
(***************************************************************************)
EXTENDS Integers, Sequences, FiniteSets, TLC

VARIABLES
    g1,           \* the composite: [parts, nodes, dilation]
    g2,           \* the other shape, in its own frame: [c, h] = [c-h, c+h]
    pos12,        \* the caller's relative pose argument
    margin,       \* the caller's margin argument
    dispatcher,   \* the pluggable narrow phase: [fails, touch]
    entry,        \* "cs" = composite_shape_shape, "sc" = shape_composite_shape
    visitor,      \* the visitor built at line 22: [msum_shift, msum_margin, pos12]
    queue,        \* traverse_best_first's heap: set of [node, w]
    best_cost,    \* traverse_best_first's best_cost
    best_result,  \* traverse_best_first's best_result (NoResult = None)
    pc,           \* "call", "loop", "ret", "done"
    calls,        \* part ids the dispatcher was invoked with, in order
    last,         \* the status returned by the latest visit and its arguments
    inner,        \* what traverse_best_first returned (NoResult = None)
    outcome,      \* what the entry point returned, or Panic
    round,        \* 1 for the first query, 2 for the repeated one
    prev          \* the first query's [margin, outcome] once repeated

vars == << g1, g2, pos12, margin, dispatcher, entry, visitor, queue, best_cost,
           best_result, pc, calls, last, inner, outcome, round, prev >>

inputs == << g1, g2, pos12, dispatcher, entry >>

----------------------------------------------------------------------------
(* Bounds of the model.                                                    *)

MaxParts == 2
MaxMargin == 1

(* Program constants.                                                      *)

SIMD_WIDTH == 4
RealMax == 1000

----------------------------------------------------------------------------
(* Isometries of the line and intervals.                                   *)

Max2(a, b) == IF a >= b THEN a ELSE b
Min2(a, b) == IF a <= b THEN a ELSE b
Abs(a) == IF a >= 0 THEN a ELSE -a

Identity == [s |-> 1, t |-> 0]

\* a * b : first b, then a
IsoMul(a, b) == [s |-> a.s * b.s, t |-> a.s * b.t + a.t]

Inverse(a) == [s |-> a.s, t |-> -(a.s * a.t)]

inv_mul(a, b) == IsoMul(Inverse(a), b)

transform_point(a, x) == a.s * x + a.t

Distance(p, q) == Abs(p - q)

\* the image of the interval iv under the isometry a
TransformInterval(a, iv) ==
    LET u == transform_point(a, iv.mins)
        v == transform_point(a, iv.maxs)
    IN  [mins |-> Min2(u, v), maxs |-> Max2(u, v)]

\* every part has the same local shape; its pose places it
PartShape == [mins |-> 0, maxs |-> 1]

G2Interval(sh) == [mins |-> sh.c - sh.h, maxs |-> sh.c + sh.h]

\* Shape::compute_aabb(pos)
compute_aabb(sh, pos) == TransformInterval(pos, G2Interval(sh))

center(bb) == (bb.mins + bb.maxs) \div 2
half_extents(bb) == (bb.maxs - bb.mins) \div 2

----------------------------------------------------------------------------
(* ClosestPoints and results.                                              *)

Intersecting == [kind |-> "Intersecting", p1 |-> 0, p2 |-> 0]
Disjoint == [kind |-> "Disjoint", p1 |-> 0, p2 |-> 0]
WithinMargin(p, q) == [kind |-> "WithinMargin", p1 |-> p, p2 |-> q]
DispatchErr == [kind |-> "Err", p1 |-> 0, p2 |-> 0]
Panic == [kind |-> "Panic", p1 |-> 0, p2 |-> 0]
Pending == [kind |-> "Pending", p1 |-> 0, p2 |-> 0]

\* ClosestPoints::flipped
flipped(cp) ==
    IF cp.kind = "WithinMargin" THEN WithinMargin(cp.p2, cp.p1) ELSE cp

\* Option<(PartId, ClosestPoints)>: None
NoResult == [part |-> 0, cp |-> Pending]
SomeResult(id, cp) == [part |-> id, cp |-> cp]

----------------------------------------------------------------------------
(* The narrow phase (QueryDispatcher::closest_points) for a part and g2.   *)
(* pos maps g2's frame into the part's frame.  The answer is exact for the *)
(* two intervals unless the dispatcher has no algorithm for the pair       *)
(* (Err).  dispatcher.touch says whether shapes at distance exactly 0 are  *)
(* reported Intersecting or WithinMargin with two coinciding points.       *)
(* p1 is in the part's frame, p2 in g2's frame.                            *)

closest_points(pos, id, m) ==
    LET B == TransformInterval(pos, G2Interval(g2))
        A == PartShape
        right == B.mins - A.maxs
        left == A.mins - B.maxs
        gap == Max2(right, left)
    IN  IF id \in dispatcher.fails THEN DispatchErr
        ELSE IF gap < 0 \/ (gap = 0 /\ dispatcher.touch) THEN Intersecting
        ELSE IF gap > m THEN Disjoint
        ELSE IF right >= 0
             THEN WithinMargin(A.maxs, transform_point(Inverse(pos), B.mins))
             ELSE WithinMargin(A.mins, transform_point(Inverse(pos), B.maxs))

----------------------------------------------------------------------------
(* The composite shape: parts and the QBVH over them (typed_qbvh).         *)
(* A node packs up to SIMD_WIDTH lanes; a leaf's lanes hold part ids, an   *)
(* internal node's lanes hold node indices.  Node 1 is the root.           *)

RECURSIVE SumTo(_, _)
SumTo(sizes, j) == IF j = 0 THEN 0 ELSE sizes[j] + SumTo(sizes, j - 1)

LeafNode(ids) == [leaf |-> TRUE, children |-> ids]

\* a root holding one leaf node per group of consecutive parts
Tree(sizes) ==
    LET k == Len(sizes)
    IN  << [leaf |-> FALSE, children |-> [j \in 1..k |-> j + 1]] >> \o
        [j \in 1..k |->
            LeafNode([i \in 1..sizes[j] |-> SumTo(sizes, j - 1) + i])]

\* the same leaves with all but the first under an internal node of their own
Nested(sizes) ==
    LET k == Len(sizes)
    IN  << [leaf |-> FALSE, children |-> << 3, 2 >>],
           [leaf |-> FALSE, children |-> [j \in 1..(k - 1) |-> j + 3]] >> \o
        [j \in 1..k |->
            LeafNode([i \in 1..sizes[j] |-> SumTo(sizes, j - 1) + i])]

Compositions(n) ==
    LET w == Min2(n, SIMD_WIDTH)
    IN  UNION {{sz \in [1..k -> 1..w] : SumTo(sz, k) = n} : k \in 1..w}

Hierarchies(n) ==
    IF n = 0 THEN {<< >>}
    ELSE {Tree(sz) : sz \in Compositions(n)} \cup
         {Nested(sz) : sz \in {c \in Compositions(n) : Len(c) >= 2}} \cup
         (IF n <= SIMD_WIDTH THEN {<< LeafNode([i \in 1..n |-> i]) >>} ELSE {})

\* map_untyped_part_at: the part's pose in the composite's frame
part_pos1(id) == g1.parts[id]

\* the box the Qbvh keeps for a part: the part's Aabb, dilated
PartAabb(id) ==
    LET bb == TransformInterval(part_pos1(id), PartShape)
    IN  [mins |-> bb.mins - g1.dilation, maxs |-> bb.maxs + g1.dilation]

Invalid == [mins |-> RealMax, maxs |-> -RealMax]

Hull(boxes) ==
    [mins |-> CHOOSE a \in {b.mins : b \in boxes} :
                  \A b \in boxes : a <= b.mins,
     maxs |-> CHOOSE a \in {b.maxs : b \in boxes} :
                  \A b \in boxes : a >= b.maxs]

RECURSIVE NodeAabb(_)
NodeAabb(nd) ==
    LET node == g1.nodes[nd]
    IN  Hull({IF node.leaf THEN PartAabb(node.children[ii])
              ELSE NodeAabb(node.children[ii]) :
              ii \in 1..Len(node.children)})

\* lane ii of node nd's SimdAabb
LaneAabb(nd, ii) ==
    LET node == g1.nodes[nd]
    IN  IF ii > Len(node.children) THEN Invalid
        ELSE IF node.leaf THEN PartAabb(node.children[ii])
        ELSE NodeAabb(node.children[ii])

\* the leaf data handed to visit: Some(part id) or None (0)
LaneData(nd, ii) ==
    LET node == g1.nodes[nd]
    IN  IF node.leaf /\ ii <= Len(node.children) THEN node.children[ii] ELSE 0

----------------------------------------------------------------------------
(* CompositeShapeAgainstShapeClosestPointsVisitor.                         *)

\* new(): the shift and margin of the Minkowski sum, from g2's Aabb in the
\* composite's frame
new(pos) ==
    LET ls_aabb2 == compute_aabb(g2, pos)
    IN  [msum_shift |-> -center(ls_aabb2),
         msum_margin |-> half_extents(ls_aabb2),
         pos12 |-> pos]

MsumMarginNotNegated(nd, ii) ==
    LET bv == LaneAabb(nd, ii)
    IN  IF bv = Invalid THEN bv
        ELSE [mins |-> bv.mins + visitor.msum_shift + visitor.msum_margin,
              maxs |-> bv.maxs + visitor.msum_shift + visitor.msum_margin]

\* lane ii of the Minkowski sum of node nd's boxes and g2's box.  An
\* invalid lane (+-Real::MAX) absorbs the shift and the margin.
Msum(nd, ii) ==
    LET bv == LaneAabb(nd, ii)
    IN  IF bv = Invalid THEN bv
        ELSE [mins |-> bv.mins + visitor.msum_shift + (-visitor.msum_margin),
              maxs |-> bv.maxs + visitor.msum_shift + visitor.msum_margin]

\* SimdAabb::distance_to_origin, one lane
distance_to_origin(box) == Max2(Max2(box.mins, -box.maxs), 0)

LaneDist(nd, ii) == distance_to_origin(Msum(nd, ii))

LaneMaskLe(best, nd, ii) == distance_to_origin(Msum(nd, ii)) <= best

\* dist.simd_lt(splat(best)), one lane
LaneMask(best, nd, ii) == LaneDist(nd, ii) < best

Lanes == 1..SIMD_WIDTH

NoLanes(v) == [ii \in Lanes |-> v]

\* the dispatcher's answer for the part in lane ii, as the closure of
\* map_untyped_part_at receives it
LanePts(id) ==
    closest_points(inv_mul(part_pos1(id), visitor.pos12), id, margin)

\* the weight of a WithinMargin answer: the distance between the two
\* points, both expressed in the composite's frame
LaneWeight(id, pts) ==
    LET p1 == transform_point(part_pos1(id), pts.p1)
        p2_1 == transform_point(visitor.pos12, pts.p2)
    IN  Distance(p1, p2_1)

LaneResultLocal(id, pts) == SomeResult(id, WithinMargin(pts.p1, pts.p2))

\* the result recorded for a WithinMargin answer
LaneResult(id, pts) ==
    SomeResult(id, WithinMargin(transform_point(part_pos1(id), pts.p1), pts.p2))

\* found_intersection: ExitEarly(Some((part_id, Intersecting)))
ExitEarlyNone(st, part_id) == [st EXCEPT !.exit = TRUE]
ExitEarly(st, part_id) ==
    [st EXCEPT !.exit = TRUE, !.result = SomeResult(part_id, Intersecting)]

\* the loop over the lanes of a leaf, from lane ii on
RECURSIVE LeafLoop(_, _, _, _)
LeafLoop(ii, best, nd, st) ==
    IF ii > SIMD_WIDTH THEN st
    ELSE IF LaneMask(best, nd, ii) /\ LaneData(nd, ii) # 0
    THEN LET part_id == LaneData(nd, ii)
             pts == LanePts(part_id)
             called == [st EXCEPT !.calls = Append(@, part_id)]
         IN  IF pts.kind = "WithinMargin"
             THEN LeafLoop(ii + 1, best, nd,
                      [called EXCEPT !.weights[ii] = LaneWeight(part_id, pts),
                                     !.results[ii] = LaneResult(part_id, pts),
                                     !.mask[ii] = TRUE])
             ELSE IF pts.kind = "Intersecting"
             THEN ExitEarly(called, part_id)
             ELSE LeafLoop(ii + 1, best, nd, called)
    ELSE LeafLoop(ii + 1, best, nd, st)

\* SimdBestFirstVisitor::visit(best, bv, data) for node nd
visit(best, nd) ==
    IF g1.nodes[nd].leaf
    THEN LeafLoop(1, best, nd,
             [exit |-> FALSE, result |-> NoResult,
              weights |-> NoLanes(0), mask |-> NoLanes(FALSE),
              results |-> NoLanes(NoResult), calls |-> << >>])
    ELSE [exit |-> FALSE, result |-> NoResult,
          weights |-> [ii \in Lanes |-> LaneDist(nd, ii)],
          mask |-> [ii \in Lanes |-> LaneMask(best, nd, ii)],
          results |-> NoLanes(NoResult), calls |-> << >>]

----------------------------------------------------------------------------
(* Qbvh::traverse_best_first.                                              *)

\* the entries BinaryHeap::pop may return: those of least weight
Top == {e \in queue : \A f \in queue : e.w <= f.w}

\* the children pushed after visiting an internal node
Pushed(nd, st) ==
    {[node |-> g1.nodes[nd].children[ii], w |-> st.weights[ii]] :
        ii \in {jj \in Lanes : st.mask[jj] /\ jj <= Len(g1.nodes[nd].children)}}

\* the update of (best_cost, best_result) after visiting a leaf, lane by lane
RECURSIVE LeafFold(_, _, _, _)
LeafFold(ii, nd, st, acc) ==
    IF ii > SIMD_WIDTH THEN acc
    ELSE IF st.mask[ii] /\ st.weights[ii] < acc.cost /\ st.results[ii] # NoResult
              /\ LaneData(nd, ii) # 0
    THEN LeafFold(ii + 1, nd, st, [cost |-> st.weights[ii], result |-> st.results[ii]])
    ELSE LeafFold(ii + 1, nd, st, acc)

NoVisit == [node |-> 0, best |-> 0, st |-> [exit |-> FALSE, result |-> NoResult,
              weights |-> NoLanes(0), mask |-> NoLanes(FALSE),
              results |-> NoLanes(NoResult), calls |-> << >>]]

----------------------------------------------------------------------------
(* The inputs of a query.                                                  *)

\* the parts [0,1], [1,2], [-1,0] and [-2,-1] of the composite's frame
PartPoses ==
    {[s |-> 1, t |-> 0], [s |-> 1, t |-> 1],
     [s |-> -1, t |-> 0], [s |-> -1, t |-> -1]}

\* by how much the Qbvh's leaf boxes exceed the parts
Dilations == {0, 1}

Poses12 == {Identity, [s |-> 1, t |-> 1], [s |-> -1, t |-> 1]}

G2Shapes == {[c |-> 0, h |-> 0], [c |-> 1, h |-> 1]}

\* the composites of n parts whose boxes are dilated by one of ds
Composites(n, ds) ==
    {[parts |-> ps, nodes |-> h, dilation |-> d] :
        ps \in [1..n -> PartPoses], h \in Hierarchies(n), d \in ds}

Dispatchers(n) == {[fails |-> f, touch |-> b] : f \in SUBSET (1..n), b \in BOOLEAN}

\* a dispatcher with an algorithm for every pair, which reports shapes at
\* distance 0 as WithinMargin
Infallible == [fails |-> {}, touch |-> FALSE]

\* Up to MaxParts parts with any dispatcher, and one part more with the
\* infallible dispatcher.
Configurations ==
    UNION {{[g1 |-> c, dispatcher |-> d] :
               c \in Composites(n, IF n = 0 THEN {0} ELSE Dilations),
               d \in Dispatchers(n)} : n \in 0..MaxParts}
    \cup {[g1 |-> c, dispatcher |-> Infallible] : c \in Composites(MaxParts + 1, Dilations)}

InitEntry(e) ==
    /\ \E cfg \in Configurations :
          /\ g1 = cfg.g1
          /\ dispatcher = cfg.dispatcher
    /\ g2 \in G2Shapes
    /\ pos12 \in Poses12
    /\ margin \in 0..MaxMargin
    /\ entry = e
    /\ visitor = new(Identity)
    /\ queue = {}
    /\ best_cost = RealMax
    /\ best_result = NoResult
    /\ pc = "call"
    /\ calls = << >>
    /\ last = NoVisit
    /\ inner = NoResult
    /\ outcome = Pending
    /\ round = 1
    /\ prev = [margin |-> 0, outcome |-> Pending]

Init == InitEntry("cs")

InitFlip == InitEntry("sc")

----------------------------------------------------------------------------
(* The two entry points and the traversal they drive.                      *)

ShapeCompositePoseAsIs(pos) == pos

\* the pose closest_points_shape_composite_shape hands on (line 44)
ShapeCompositePose(pos) == Inverse(pos)

\* what closest_points_shape_composite_shape does with the answer (line 44)
ShapeCompositeResult(cp) == flipped(cp)

\* lines 22-26: build the visitor and start the traversal; an empty Qbvh
\* makes traverse_best_first return None at once
Call ==
    /\ pc = "call"
    /\ visitor' = new(IF entry = "sc" THEN ShapeCompositePose(pos12) ELSE pos12)
    /\ best_cost' = RealMax
    /\ best_result' = NoResult
    /\ IF g1.nodes = << >>
       THEN /\ queue' = {}
            /\ inner' = NoResult
            /\ pc' = "ret"
       ELSE /\ queue' = {[node |-> 1, w |-> RealMax \div 2]}
            /\ inner' = inner
            /\ pc' = "loop"
    /\ UNCHANGED << inputs, margin, calls, last, outcome, round, prev >>

\* the heap is empty: the loop ends with best_result
Exhausted ==
    /\ pc = "loop"
    /\ queue = {}
    /\ inner' = best_result
    /\ pc' = "ret"
    /\ UNCHANGED << inputs, margin, visitor, queue, best_cost, best_result,
                    calls, last, outcome, round, prev >>

\* the popped entry cannot beat best_cost: break
Break ==
    /\ pc = "loop"
    /\ \E e \in Top :
          /\ e.w >= best_cost
          /\ queue' = queue \ {e}
    /\ inner' = best_result
    /\ pc' = "ret"
    /\ UNCHANGED << inputs, margin, visitor, best_cost, best_result,
                    calls, last, outcome, round, prev >>

\* visit an internal node and push the lanes of its mask
VisitInternal ==
    /\ pc = "loop"
    /\ \E e \in Top :
          /\ e.w < best_cost
          /\ ~g1.nodes[e.node].leaf
          /\ LET st == visit(best_cost, e.node)
             IN  /\ queue' = (queue \ {e}) \cup Pushed(e.node, st)
                 /\ last' = [node |-> e.node, best |-> best_cost, st |-> st]
    /\ UNCHANGED << inputs, margin, visitor, best_cost, best_result, pc,
                    calls, inner, outcome, round, prev >>

\* visit a leaf that reports MaybeContinue and keep the best lane
VisitLeaf ==
    /\ pc = "loop"
    /\ \E e \in Top :
          /\ e.w < best_cost
          /\ g1.nodes[e.node].leaf
          /\ LET st == visit(best_cost, e.node)
                 acc == LeafFold(1, e.node, st,
                                 [cost |-> best_cost, result |-> best_result])
             IN  /\ ~st.exit
                 /\ queue' = queue \ {e}
                 /\ best_cost' = acc.cost
                 /\ best_result' = acc.result
                 /\ calls' = calls \o st.calls
                 /\ last' = [node |-> e.node, best |-> best_cost, st |-> st]
    /\ UNCHANGED << inputs, margin, visitor, pc, inner, outcome, round, prev >>

\* visit a leaf that reports ExitEarly: the traversal returns its result
VisitLeafExit ==
    /\ pc = "loop"
    /\ \E e \in Top :
          /\ e.w < best_cost
          /\ g1.nodes[e.node].leaf
          /\ LET st == visit(best_cost, e.node)
             IN  /\ st.exit
                 /\ queue' = queue \ {e}
                 /\ inner' = IF st.result # NoResult THEN st.result ELSE best_result
                 /\ calls' = calls \o st.calls
                 /\ last' = [node |-> e.node, best |-> best_cost, st |-> st]
    /\ pc' = "ret"
    /\ UNCHANGED << inputs, margin, visitor, best_cost, best_result,
                    outcome, round, prev >>

\* lines 27-29 and 44: expect() the traversal's answer and hand back its
\* ClosestPoints, flipped by closest_points_shape_composite_shape
Return ==
    /\ pc = "ret"
    /\ outcome' = IF inner = NoResult THEN Panic
                  ELSE IF entry = "sc" THEN ShapeCompositeResult(inner.cp)
                  ELSE inner.cp
    /\ pc' = "done"
    /\ UNCHANGED << inputs, margin, visitor, queue, best_cost, best_result,
                    calls, last, inner, round, prev >>

\* the caller repeats the finished query with a larger margin
Requery ==
    /\ pc = "done"
    /\ round = 1
    /\ \E m \in (margin + 1)..MaxMargin : margin' = m
    /\ prev' = [margin |-> margin, outcome |-> outcome]
    /\ round' = 2
    /\ pc' = "call"
    /\ queue' = {}
    /\ best_cost' = RealMax
    /\ best_result' = NoResult
    /\ calls' = << >>
    /\ last' = NoVisit
    /\ inner' = NoResult
    /\ outcome' = Pending
    /\ UNCHANGED << inputs, visitor >>

Next ==
    \/ Call
    \/ Exhausted
    \/ Break
    \/ VisitInternal
    \/ VisitLeaf
    \/ VisitLeafExit
    \/ Return

Spec == Init /\ [][Next]_vars

SpecFlip == InitFlip /\ [][Next]_vars

NextMargin == Next \/ Requery

SpecMargin == Init /\ [][NextMargin]_vars

----------------------------------------------------------------------------
(* The configuration of a query as the claims speak of it: the geometry    *)
(* in the composite's frame, and the answer the narrow phase has for each  *)
(* part.                                                                   *)

Parts == 1..Len(g1.parts)

NonEmpty == g1.nodes # << >>

\* the pose that maps g2's frame into the composite's frame
PoseInComposite ==
    IF entry = "cs" THEN pos12
    ELSE CHOOSE q \in [s : {1, -1}, t : -2..2] : IsoMul(q, pos12) = Identity

G2InComposite == TransformInterval(PoseInComposite, G2Interval(g2))

PartInComposite(i) == TransformInterval(g1.parts[i], PartShape)

\* the signed gap between two intervals: negative when they overlap
Gap(a, b) == Max2(b.mins - a.maxs, a.mins - b.maxs)

PartGap(i) == Gap(PartInComposite(i), G2InComposite)

TrueDist(i) == Max2(PartGap(i), 0)

Fails(i) == i \in dispatcher.fails

AnswersIntersecting(i) ==
    ~Fails(i) /\ (PartGap(i) < 0 \/ (PartGap(i) = 0 /\ dispatcher.touch))

AnswersWithin(i, m) ==
    ~Fails(i) /\ ~AnswersIntersecting(i) /\ PartGap(i) <= m

AnswersDisjoint(i, m) == ~Fails(i) /\ PartGap(i) > m

\* the distance a part offers the search: 0 when it intersects, its true
\* distance when within the margin, none (RealMax) otherwise
CandDist(i, m) ==
    IF AnswersIntersecting(i) THEN 0
    ELSE IF AnswersWithin(i, m) THEN TrueDist(i)
    ELSE RealMax

MinOf(S) == IF S = {} THEN RealMax ELSE CHOOSE a \in S : \A b \in S : a <= b

BestDist(m) == MinOf({CandDist(i, m) : i \in Parts})

\* the distance between the two points of an answer, p2 taken to the
\* composite's frame
SeparationOf(cp) == Distance(cp.p1, transform_point(PoseInComposite, cp.p2))

----------------------------------------------------------------------------
\* C1: for a non-empty composite whose parts are all farther than the margin
\* (every dispatcher call answers Disjoint), the query returns Disjoint.
C1_AllDisjointGivesDisjoint ==
    (pc = "done" /\ NonEmpty /\ \A i \in Parts : AnswersDisjoint(i, margin))
        => outcome = Disjoint

\* C2: when exactly one part answers Intersecting, the query returns
\* Intersecting with that part's id, whatever the other parts' distances and
\* whatever the order of the visits.
C2_SingleIntersectingWins ==
    \A i \in Parts :
        (/\ pc = "done"
         /\ AnswersIntersecting(i)
         /\ \A j \in Parts \ {i} : ~AnswersIntersecting(j))
            => (outcome = Intersecting /\ inner.part = i)

\* C7: the call aborts exactly when the hierarchy is empty.
C7_AbortsOnlyWhenEmpty ==
    pc = "done" => (outcome = Panic <=> ~NonEmpty)

\* C8: a failing dispatcher call counts as Disjoint: with any number of
\* failing parts the search is not aborted and the answer is the one the
\* other parts determine.
C8_ErrCountsAsDisjoint ==
    (pc = "done" /\ NonEmpty /\ dispatcher.fails # {})
        => /\ outcome # Panic
           /\ (BestDist(margin) = RealMax => outcome = Disjoint)
           /\ (BestDist(margin) < RealMax /\ outcome.kind = "WithinMargin"
                  => SeparationOf(outcome) = BestDist(margin))

----------------------------------------------------------------------------
\* no part overlaps g2 and no dispatcher call answers Intersecting
NonIntersecting ==
    \A i \in Parts : PartGap(i) >= 0 /\ ~AnswersIntersecting(i)

\* the least true distance of a part; a part whose dispatcher call fails is
\* dropped, that is, counts as infinitely far
MinTrueDist == MinOf({TrueDist(i) : i \in {j \in Parts : ~Fails(j)}})

InInterval(x, iv) == iv.mins <= x /\ x <= iv.maxs

----------------------------------------------------------------------------
\* C4: closest_points_shape_composite_shape runs the composite search at
\* the inverse of its pose and returns the flip of what that search gives:
\* Intersecting stays, Disjoint stays, WithinMargin(p, q) becomes
\* WithinMargin(q, p), so that the first point is a point of the plain shape
\* in its own frame and the second a point of a part in the composite's.
C4_FlipOfInverse ==
    pc = "done" =>
        /\ IsoMul(visitor.pos12, pos12) = Identity
        /\ IsoMul(pos12, visitor.pos12) = Identity
        /\ (inner = NoResult => outcome = Panic)
        /\ (inner # NoResult /\ inner.cp.kind = "Intersecting"
               => outcome = Intersecting)
        /\ (inner # NoResult /\ inner.cp.kind = "Disjoint" => outcome = Disjoint)
        /\ (inner # NoResult /\ inner.cp.kind = "WithinMargin"
               => /\ outcome = WithinMargin(inner.cp.p2, inner.cp.p1)
                  /\ InInterval(outcome.p1, G2Interval(g2))
                  /\ InInterval(outcome.p2, PartInComposite(inner.part))
                  /\ Distance(outcome.p1, transform_point(pos12, outcome.p2))
                         = BestDist(margin))

C4_Witness ==
    /\ pc = "done"
    /\ entry = "sc"
    /\ outcome.kind = "WithinMargin"
    /\ outcome.p1 # outcome.p2
    /\ IsoMul(pos12, pos12) # Identity

----------------------------------------------------------------------------
\* the distance of what the traversal returned: 0 for Intersecting, none
\* (RealMax) for None
ResultDist(r) ==
    IF r = NoResult THEN RealMax
    ELSE IF r.cp.kind = "Intersecting" THEN 0
    ELSE SeparationOf(r.cp)

Called == {calls[k] : k \in 1..Len(calls)}

----------------------------------------------------------------------------
\* the distance between lane ii's box and g2's box, in the composite's frame
BoxDist(nd, ii) == Max2(Gap(LaneAabb(nd, ii), G2InComposite), 0)

HasLane(nd, ii) == ii <= Len(g1.nodes[nd].children)

\* the lanes of a leaf the dispatcher is to be asked about
Surviving(best, nd) ==
    {ii \in Lanes : LaneData(nd, ii) # 0 /\ BoxDist(nd, ii) < best}

Hits(best, nd) ==
    {ii \in Surviving(best, nd) : AnswersIntersecting(LaneData(nd, ii))}

VisitCalled(st) == {st.calls[k] : k \in 1..Len(st.calls)}

\* C9: a visit exits early exactly when a surviving lane answers
\* Intersecting; it then returns the first such lane's part id with
\* Intersecting, has asked the dispatcher about no later lane, the traversal
\* returns that result whatever candidates were recorded before, and the
\* dispatcher is not asked again.
C9_EarlyExit ==
    last.node # 0 =>
        LET nd == last.node
            st == last.st
            hits == Hits(last.best, nd)
            first == CHOOSE ii \in hits : \A jj \in hits : ii <= jj
        IN  /\ st.exit <=> hits # {}
            /\ st.exit =>
                  /\ st.result = SomeResult(LaneData(nd, first), Intersecting)
                  /\ VisitCalled(st) =
                        {LaneData(nd, ii) :
                            ii \in {jj \in Surviving(last.best, nd) : jj <= first}}
                  /\ st.calls[Len(st.calls)] = LaneData(nd, first)
                  /\ pc \in {"ret", "done"}
                  /\ inner = st.result
                  /\ calls[Len(calls)] = LaneData(nd, first)
                  /\ (pc = "done" => outcome = Intersecting)

C9_Witness ==
    /\ pc = "done"
    /\ last.st.exit
    /\ best_result # NoResult
    /\ best_result.cp.kind = "WithinMargin"

----------------------------------------------------------------------------
\* C10: the lanes of a visit that does not exit early.  Internal node: a
\* lane is in the mask exactly when its box distance is strictly below best,
\* its weight is that distance, and no lane has a result.  Leaf: the
\* dispatcher is asked about a lane exactly when the lane has a part id and
\* its box distance is strictly below best; the lane is in the mask and has
\* a result (its part id, WithinMargin) exactly when the answer was
\* WithinMargin, with the distance between the two points in the
\* composite's frame as its weight.
C10_LaneOutputs ==
    (last.node # 0 /\ ~last.st.exit) =>
        LET nd == last.node
            st == last.st
        IN  \A ii \in Lanes :
               IF ~g1.nodes[nd].leaf
               THEN /\ st.mask[ii] <=> (HasLane(nd, ii) /\ BoxDist(nd, ii) < last.best)
                    /\ HasLane(nd, ii) => st.weights[ii] = BoxDist(nd, ii)
                    /\ st.results[ii] = NoResult
                    /\ st.calls = << >>
               ELSE LET id == LaneData(nd, ii)
                    IN  /\ (id # 0 /\ id \in VisitCalled(st))
                              <=> (id # 0 /\ BoxDist(nd, ii) < last.best)
                        /\ st.mask[ii] <=>
                              (id \in VisitCalled(st) /\ AnswersWithin(id, margin))
                        /\ st.mask[ii] <=> st.results[ii] # NoResult
                        /\ st.mask[ii] =>
                              /\ st.results[ii].part = id
                              /\ st.results[ii].cp.kind = "WithinMargin"
                              /\ st.weights[ii] = SeparationOf(st.results[ii].cp)
                              /\ st.weights[ii] = TrueDist(id)

C10_Witness ==
    /\ last.node # 0
    /\ ~last.st.exit
    /\ g1.nodes[last.node].leaf
    /\ last.best < RealMax
    /\ \E ii, jj \in Lanes :
          /\ last.st.mask[ii]
          /\ LaneData(last.node, jj) # 0
          /\ LaneData(last.node, jj) \notin VisitCalled(last.st)

----------------------------------------------------------------------------
====
